---- MODULE Spec2Model ----
(***************************************************************************)
(* Model of v2/pkg/protocols/http/utils.go: dumpResponseWithRedirectChain, *)
(* headersToString, dump, handleDecompression and rawHasBody.              *)
(*                                                                         *)
(* Each function has its own specification (SpecChain, SpecHeaders,       *)
(* SpecDump, SpecDecomp, SpecProbe); the variables of the other functions  *)
(* keep their idle value in it.                                            *)
(***************************************************************************)
EXTENDS Integers, Sequences, FiniteSets, TLC

VARIABLES
  \* ---- dumpResponseWithRedirectChain ----
  chain,        \* the responses reachable from resp, in chronological order
  tail,         \* what hop 1's back-reference is
  body,         \* the body argument (the final response's bytes, already read)
  drained,      \* drained[i]: the Body stream of hop i was read before
  redirects,    \* the local slice of per-hop records, in push order
  redirectResp, \* the local cursor: a hop index, or Nil
  cpc,          \* position in dumpResponseWithRedirectChain
  cout,         \* returned bytes
  cerr,         \* returned error
  \* ---- headersToString ----
  headers,      \* the http.Header map: name -> list of values
  inserted,     \* the names in the order they were set (the map does not keep it)
  hpc,          \* position in headersToString
  hout,         \* returned string, as the sequence of the strings written
  \* ---- dump ----
  req,          \* the generatedRequest
  dcount,       \* dump calls made so far
  dlast,        \* result of the latest dump call
  dprev,        \* result of the dump call before it
  \* ---- handleDecompression ----
  resp,         \* the response argument: absent, or its Content-Encoding value
  bodyOrig,     \* the body argument
  zpc,          \* position in handleDecompression
  zres,         \* returned bytes and error
  \* ---- rawHasBody ----
  data,         \* the raw request text, as a sequence of lines and body bytes
  ppc,          \* position in rawHasBody
  pres          \* returned bool

chainVars == <<chain, tail, body, drained, redirects, redirectResp, cpc, cout, cerr>>
hdrVars == <<headers, inserted, hpc, hout>>
dumpVars == <<req, dcount, dlast, dprev>>
decVars == <<resp, bodyOrig, zpc, zres>>
probeVars == <<data, ppc, pres>>

vars == <<chainVars, hdrVars, dumpVars, decVars, probeVars>>

(***************************************************************************)
(* Bounds                                                                  *)
(***************************************************************************)
MaxHops == 3
MaxBodyLen == 1

\* The walk is stopped after this many records, so that a cyclic chain has
\* finitely many states; it is more than any acyclic chain pushes.
MaxRecords == MaxHops + 2

Nil == 0
NoErr == "nil"

(***************************************************************************)
(* Idle values of the variables of the functions a specification leaves    *)
(* out                                                                     *)
(***************************************************************************)
HdrIdle ==
  /\ headers = <<>> /\ inserted = <<>> /\ hpc = "idle" /\ hout = <<>>

NoResult == [out |-> <<>>, err |-> NoErr, readErr |-> NoErr]

DumpIdle ==
  /\ req = [variant |-> "none"] /\ dcount = 0 /\ dlast = NoResult /\ dprev = NoResult

DecIdle ==
  /\ resp = [absent |-> TRUE] /\ bodyOrig = <<>> /\ zpc = "idle"
  /\ zres = [body |-> <<>>, err |-> NoErr]

ProbeIdle ==
  /\ data = <<>> /\ ppc = "idle" /\ pres = FALSE

(***************************************************************************)
(* Sequences of bytes                                                      *)
(***************************************************************************)
RECURSIVE Flatten(_)
Flatten(ss) == IF ss = <<>> THEN <<>> ELSE Head(ss) \o Flatten(Tail(ss))

Reverse(s) == [i \in 1..Len(s) |-> s[Len(s) + 1 - i]]

(***************************************************************************)
(* The response graph.  Response -> Request -> Response is a partial       *)
(* function on responses, so what is reachable from the final response is  *)
(* a path of distinct responses, hop NumHops (final) back to hop 1, whose   *)
(* last back-reference is absent or leads to a response of the path.       *)
(*   tail.req = FALSE : hop 1 has no Request                               *)
(*   tail.resp = Nil  : hop 1's Request has no Response (first request)    *)
(*   tail.resp = j    : hop 1's Request.Response is hop j (a cycle)        *)
(* Hop i: renderOK (does httputil.DumpResponse succeed), kind of Body      *)
(* ("nil", or a stream that yields n bytes and then ends with "eof" or     *)
(* with a read error "err").                                               *)
(***************************************************************************)
Hop == [renderOK : BOOLEAN, kind : {"eof", "err"}, n : 0..MaxBodyLen]
         \cup [renderOK : BOOLEAN, kind : {"nil"}, n : {0}]

NumHops == Len(chain)
Final == NumHops

\* resp.Request != nil
HasRequest(i) == i > 1 \/ tail.req

\* resp.Request.Response, for a response that has a Request
RequestResponse(i) ==
  IF i > 1 THEN i - 1
  ELSE tail.resp

\* The marker bytes of hop i: its status line and headers, and its body bytes.
HeadBytes(i) == <<100 + i>>
BodyBytes(i) == [j \in 1..chain[i].n |-> 10 * i + j]
ArgBytes(n) == [j \in 1..n |-> 200 + j]

\* httputil.DumpResponse(resp, false)
DumpResponse(i) ==
  IF chain[i].renderOK THEN [err |-> NoErr, data |-> HeadBytes(i)]
  ELSE [err |-> "RenderError", data |-> <<>>]

\* ioutil.ReadAll(resp.Body): the bytes read before EOF or the error, and the
\* error; a stream that was read before has nothing left.
ReadAll(i, wasDrained) ==
  [data |-> IF wasDrained THEN <<>> ELSE BodyBytes(i),
   err  |-> IF chain[i].kind = "err" THEN "ReadError" ELSE NoErr]

(***************************************************************************)
(* dumpResponseWithRedirectChain                                           *)
(***************************************************************************)
\* lines 33-35: the final response's record
FirstRecord(respData, b) == respData \o b

HopBody_DropOnError(i, wasDrained) ==
  IF chain[i].kind # "nil" /\ ReadAll(i, wasDrained).err = NoErr
  THEN ReadAll(i, wasDrained).data ELSE <<>>

\* lines 49-51: body stays nil unless the response has a Body; the read error
\* is dropped
HopBody(i, wasDrained) ==
  IF chain[i].kind # "nil" THEN ReadAll(i, wasDrained).data ELSE <<>>

\* lines 52-56: the record of an earlier response
HopRecord(respData, b) == respData \o (IF Len(b) > 0 THEN b ELSE <<>>)

\* lines 39-41: the first step back, guarded against a nil Request
FirstRedirectResp(i) ==
  IF i # Nil /\ HasRequest(i) THEN RequestResponse(i) ELSE Nil

EmitRecords_PushOrder(rs) == Flatten(rs)

\* lines 60-62: the records from the last pushed to the first
EmitRecords(rs) == Flatten(Reverse(rs))

ChainIdle ==
  /\ chain = <<>> /\ tail = [req |-> FALSE, resp |-> Nil] /\ body = <<>>
  /\ drained = <<>> /\ redirects = <<>> /\ redirectResp = Nil
  /\ cpc = "idle" /\ cout = <<>> /\ cerr = NoErr

InitChain ==
  /\ HdrIdle /\ DumpIdle /\ DecIdle /\ ProbeIdle
  /\ \E L \in 1..MaxHops :
       /\ chain \in [1..L -> Hop]
       /\ tail \in [req : {TRUE}, resp : {Nil} \cup (1..L)]
                    \cup [req : {FALSE}, resp : {Nil}]
       /\ drained = [i \in 1..L |-> FALSE]
  /\ \E n \in 0..MaxBodyLen : body = ArgBytes(n)
  /\ redirects = <<>>
  /\ redirectResp = Nil
  /\ cpc = "start"
  /\ cout = <<>>
  /\ cerr = NoErr

\* lines 26-41
ChainStart ==
  /\ cpc = "start"
  /\ LET d == DumpResponse(Final) IN
       IF d.err # NoErr
       THEN /\ cpc' = "done"
            /\ cout' = <<>>
            /\ cerr' = d.err
            /\ UNCHANGED <<redirects, redirectResp>>
       ELSE /\ redirects' = Append(redirects, FirstRecord(d.data, body))
            /\ redirectResp' = FirstRedirectResp(Final)
            /\ cpc' = "walk"
            /\ UNCHANGED <<cout, cerr>>
  /\ UNCHANGED <<chain, tail, body, drained>>
  /\ UNCHANGED <<hdrVars, dumpVars, decVars, probeVars>>

WalkRenderError_Fail(e) ==
  /\ cpc' = "done"
  /\ cout' = <<>>
  /\ cerr' = e
  /\ UNCHANGED <<redirects, redirectResp, drained>>

\* lines 46-48: a response that does not render ends the walk; what was
\* collected is still emitted
WalkRenderError(e) ==
  /\ cpc' = "emit"
  /\ UNCHANGED <<redirects, redirectResp, drained, cout, cerr>>

\* lines 42-59: one iteration of the loop
ChainWalk ==
  /\ cpc = "walk"
  /\ redirectResp # Nil
  /\ Len(redirects) < MaxRecords
  /\ LET i == redirectResp
         d == DumpResponse(i)
     IN IF d.err # NoErr
        THEN WalkRenderError(d.err)
        ELSE /\ redirects' = Append(redirects, HopRecord(d.data, HopBody(i, drained[i])))
             /\ UNCHANGED <<cout, cerr>>
             /\ drained' = [drained EXCEPT ![i] = drained[i] \/ chain[i].kind # "nil"]
             /\ IF HasRequest(i)
                THEN /\ redirectResp' = RequestResponse(i)
                     /\ cpc' = "walk"
                ELSE \* line 57 reads a field of a nil *http.Request
                     /\ redirectResp' = redirectResp
                     /\ cpc' = "panic"
  /\ UNCHANGED <<chain, tail, body>>
  /\ UNCHANGED <<hdrVars, dumpVars, decVars, probeVars>>

\* lines 60-63
ChainEmit ==
  /\ \/ cpc = "emit"
     \/ cpc = "walk" /\ redirectResp = Nil
  /\ cout' = EmitRecords(redirects)
  /\ cerr' = NoErr
  /\ cpc' = "done"
  /\ UNCHANGED <<chain, tail, body, drained, redirects, redirectResp>>
  /\ UNCHANGED <<hdrVars, dumpVars, decVars, probeVars>>

NextChain == ChainStart \/ ChainWalk \/ ChainEmit

SpecChain == InitChain /\ [][NextChain]_vars

(***************************************************************************)
(* Properties of dumpResponseWithRedirectChain                             *)
(***************************************************************************)
Min(a, b) == IF a < b THEN a ELSE b

\* The record the chain's hop i stands for: its status line and headers, then
\* the bytes its body yields (for the final hop, the bytes handed in).
ChainRecord(i) == HeadBytes(i) \o (IF i = NumHops THEN body ELSE BodyBytes(i))

RECURSIVE Chronological(_, _)
Chronological(from, to) ==
  IF from > to THEN <<>> ELSE ChainRecord(from) \o Chronological(from + 1, to)

AllRender == \A i \in 1..NumHops : chain[i].renderOK

\* every hop was produced by a request, and the first request follows no response
BackwardLinked == tail.req /\ tail.resp = Nil

\* the hop whose record is the idx-th pushed, on the first pass over the chain
HopOfRecord(idx) == NumHops + 1 - idx

\* C1: for a backward-linked chain of 1..MaxHops hops that all render, the
\* call returns without error and without a crash, and its bytes are the
\* records of hop 1, hop 2, ... up to the final hop, each once, nothing between.
C1_ChronologicalOrder ==
  (BackwardLinked /\ AllRender) =>
    /\ cpc # "panic"
    /\ cpc = "done" => (cerr = NoErr /\ cout = Chronological(1, NumHops))

C1_Witness ==
  /\ cpc = "done"
  /\ NumHops >= 3
  /\ BackwardLinked /\ AllRender
  /\ \A i \in 1..NumHops : chain[i].kind = "eof" /\ chain[i].n > 0
  /\ Len(body) > 0
  /\ cout = Chronological(1, NumHops)

\* C6: the walk visits at most a bounded number of hops, whatever the links
\* are: no more records are pushed than there are responses to visit.
C6_WalkBounded == Len(redirects) <= NumHops

\* C8: when the final response does not render, the call returns an error and
\* no bytes; when the final response renders and hop k is the latest earlier
\* hop that does not, the call returns no error and exactly the records of
\* hops k+1 .. final, in chronological order.
LastFailing == CHOOSE k \in 1..(NumHops - 1) :
                 /\ ~chain[k].renderOK
                 /\ \A j \in (k + 1)..(NumHops - 1) : chain[j].renderOK

C8_RenderFailure ==
  /\ (cpc = "done" /\ ~chain[Final].renderOK) => (cerr # NoErr /\ cout = <<>>)
  /\ (chain[Final].renderOK /\ \E k \in 1..(NumHops - 1) : ~chain[k].renderOK) =>
       /\ cpc # "panic"
       /\ Len(redirects) <= NumHops - LastFailing
       /\ cpc = "done" =>
            (cerr = NoErr /\ cout = Chronological(LastFailing + 1, NumHops))

C8_Witness ==
  /\ cpc = "done"
  /\ NumHops >= 3
  /\ chain[Final].renderOK /\ chain[NumHops - 1].renderOK
  /\ ~chain[NumHops - 2].renderOK
  /\ chain[NumHops - 1].n > 0
  /\ cerr = NoErr
  /\ cout = ChainRecord(NumHops - 1) \o ChainRecord(NumHops)

\* C9 as stated: the record of a non-final hop whose body read fails, or whose
\* body is nil, is its status line and headers only.
C9_FailedReadOmitsBody ==
  \A idx \in 2..Min(Len(redirects), NumHops) :
    chain[HopOfRecord(idx)].kind \in {"err", "nil"} =>
      redirects[idx] = HeadBytes(HopOfRecord(idx))

\* C9 amended: the record of a non-final hop whose body read fails is its
\* status line and headers followed by the bytes read before the failure (a
\* nil body gives the headers only); the failure is not returned, and the walk
\* stops before the first hop only at a response that does not render.
C9_FailedReadKeepsBytes ==
  /\ \A idx \in 2..Min(Len(redirects), NumHops) :
       chain[HopOfRecord(idx)].kind \in {"err", "nil"} =>
         redirects[idx] = HeadBytes(HopOfRecord(idx)) \o BodyBytes(HopOfRecord(idx))
  /\ cerr # NoErr => ~chain[Final].renderOK
  /\ (cpc \in {"emit", "done"} /\ cerr = NoErr /\ Len(redirects) < NumHops) =>
       ~chain[NumHops - Len(redirects)].renderOK

C9_Witness ==
  /\ cpc = "done"
  /\ NumHops >= 3
  /\ AllRender
  /\ chain[NumHops - 1].kind = "err" /\ chain[NumHops - 1].n > 0
  /\ Len(redirects) = NumHops
  /\ redirects[2] = HeadBytes(NumHops - 1) \o BodyBytes(NumHops - 1)
  /\ cerr = NoErr

\* C10: no step of the walk dereferences an absent request.
C10_NullSafe == cpc # "panic"

(***************************************************************************)
(* headersToString                                                         *)
(***************************************************************************)
MaxNames == 2
MaxValues == 2

HeaderNames == {"X-Foo", "X-Bar", "X-Baz"}
HeaderValues == {"a", "b"}

Injective(s) == \A i, j \in DOMAIN s : s[i] = s[j] => i = j

\* the sequences that list every element of S once
Orders(S) == {s \in [1..Cardinality(S) -> S] : Injective(s)}

ValueLists == UNION {[1..n -> HeaderValues] : n \in 0..MaxValues}

HeaderValues_Joined(header, values, i) ==
  IF values = <<>> THEN <<>>
  ELSE <<values[1]>> \o Flatten([k \in 1..(Len(values) - 1) |-> <<", ", values[k + 1]>>])

\* lines 74-82: the values from the i-th on; each but the last is followed by
\* a line break and the name again
RECURSIVE WriteValues(_, _, _)
WriteValues(header, values, i) ==
  IF i > Len(values) THEN <<>>
  ELSE <<values[i]>>
         \o (IF i # Len(values) THEN <<"\n", header, ": ">> ELSE <<>>)
         \o WriteValues(header, values, i + 1)

\* lines 71-83: what one iteration of the outer loop writes
WriteHeader(header, values) ==
  <<header, ": ">> \o WriteValues(header, values, 1) \o <<"\n">>

\* lines 68-85, for the order in which range yields the map's keys
headersToString(order) ==
  Flatten([k \in 1..Len(order) |-> WriteHeader(order[k], headers[order[k]])])

InitHeaders ==
  /\ ChainIdle /\ DumpIdle /\ DecIdle /\ ProbeIdle
  /\ \E n \in 0..MaxNames :
       /\ inserted \in {s \in [1..n -> HeaderNames] : Injective(s)}
       /\ headers \in [{inserted[k] : k \in 1..n} -> ValueLists]
  /\ hpc = "call"
  /\ hout = <<>>

\* lines 67-86: Go's range over a map yields the keys in an order the
\* language leaves unspecified
HeadersToString ==
  /\ hpc = "call"
  /\ \E order \in Orders(DOMAIN headers) : hout' = headersToString(order)
  /\ hpc' = "done"
  /\ UNCHANGED <<headers, inserted>>
  /\ UNCHANGED <<chainVars, dumpVars, decVars, probeVars>>

NextHeaders == HeadersToString

SpecHeaders == InitHeaders /\ [][NextHeaders]_vars

(***************************************************************************)
(* Properties of headersToString                                           *)
(***************************************************************************)
HeaderLine(name, value) == <<name, ": ", value, "\n">>

\* one line per value, in value order
ValueLines(name) ==
  Flatten([j \in 1..Len(headers[name]) |-> HeaderLine(name, headers[name][j])])

\* C4 as stated: the output is, over the names in insertion order, one line
\* "Name: value\n" per value in that name's value order.
C4_InsertionOrder ==
  hpc = "done" =>
    hout = Flatten([k \in 1..Len(inserted) |-> ValueLines(inserted[k])])

\* C4 amended: the output is one block per name, each name once, in some
\* order of the names (the map's iteration order, not the insertion order);
\* the block of a name is one line "Name: value\n" per value in value order,
\* and the single line "Name: \n" for a name without values.
NameBlock(name) ==
  IF headers[name] = <<>> THEN <<name, ": ", "\n">> ELSE ValueLines(name)

C4_BlocksInSomeOrder ==
  hpc = "done" =>
    \E order \in Orders(DOMAIN headers) :
      hout = Flatten([k \in 1..Len(order) |-> NameBlock(order[k])])

C4_Witness ==
  /\ hpc = "done"
  /\ Len(inserted) >= 2
  /\ Len(headers[inserted[1]]) >= 2
  /\ headers[inserted[1]][1] # headers[inserted[1]][2]
  /\ hout = ValueLines(inserted[2]) \o ValueLines(inserted[1])
  /\ headers[inserted[2]] # <<>>

(***************************************************************************)
(* dump                                                                    *)
(*                                                                         *)
(* A structured request (req.request) has the bytes its body is made from  *)
(* (source: what BodyBytes copies), its ContentLength, and Request.Body, a *)
(* stream that may have been read already.  A raw request (req.rawRequest) *)
(* has its Data text.  serOK says whether the wire serializer accepts the  *)
(* request.                                                                *)
(***************************************************************************)
MaxDataLen == 2
MaxDumps == 3

DataBytes == {1, 2}
DataSeqs == UNION {[1..n -> DataBytes] : n \in 0..MaxDataLen}

\* bytes.NewReader(b)
NewReader(b) == [data |-> b, pos |-> 0]

\* what is left to read of a stream
Remaining(r) == SubSeq(r.data, r.pos + 1, Len(r.data))

\* req.request.BodyBytes(): a copy of the body's bytes, or no bytes and an error
BodyBytesCall(r, readOK) ==
  IF readOK THEN [data |-> r.source, err |-> NoErr]
  ELSE [data |-> <<>>, err |-> "ReadError"]

\* httputil.DumpRequestOut(req, true): drains Body, writes the request line
\* and headers and then the body, and leaves a copy of the drained bytes as
\* Body.  Writing fails when the serializer rejects the request or when the
\* body is not ContentLength bytes long.
DumpRequestOut(r) ==
  LET b == Remaining(r.Body) IN
    [Body |-> NewReader(b),
     out  |-> IF r.serOK /\ Len(b) = r.contentLength THEN <<"HEAD">> \o b ELSE <<>>,
     err  |-> IF r.serOK /\ Len(b) = r.contentLength THEN NoErr
              ELSE "SerializationError"]

\* rawhttp.DumpRequestRaw(...) over a reader of rawRequest.Data
DumpRequestRaw(r) ==
  [out |-> IF r.serOK THEN <<"RAW">> \o r.data ELSE <<>>,
   err |-> IF r.serOK THEN NoErr ELSE "SerializationError"]

StructuredBody_Keep(r, bodyBytes) == r.Body

\* line 93: Request.Body becomes a fresh reader over the copied bytes
StructuredBody(r, bodyBytes) == NewReader(bodyBytes)

StructuredResult_SurfaceRead(rd, ser) ==
  IF rd.err # NoErr THEN [out |-> <<>>, err |-> rd.err, readErr |-> rd.err]
  ELSE [out |-> ser.out, err |-> ser.err, readErr |-> rd.err]

\* lines 92-94: the read's error is dropped; the serializer's result is returned
StructuredResult(rd, ser) == [out |-> ser.out, err |-> ser.err, readErr |-> rd.err]

StructuredRequests ==
  {[variant |-> "structured", source |-> src, contentLength |-> Len(src),
    Body |-> [data |-> src, pos |-> p], serOK |-> ok] :
     src \in DataSeqs, p \in 0..MaxDataLen, ok \in BOOLEAN}

RawRequests ==
  [variant : {"raw"}, data : DataSeqs, serOK : BOOLEAN]

InitDump ==
  /\ ChainIdle /\ HdrIdle /\ DecIdle /\ ProbeIdle
  /\ req \in {r \in StructuredRequests : r.Body.pos <= Len(r.source)} \cup RawRequests
  /\ dcount = 0
  /\ dlast = NoResult
  /\ dprev = NoResult

\* lines 90-95
DumpStructured ==
  /\ req.variant = "structured"
  /\ dcount < MaxDumps
  /\ \E readOK \in BOOLEAN :
       LET rd  == BodyBytesCall(req, readOK)
           r1  == [req EXCEPT !.Body = StructuredBody(req, rd.data)]
           ser == DumpRequestOut(r1)
       IN /\ req' = [r1 EXCEPT !.Body = ser.Body]
          /\ dlast' = StructuredResult(rd, ser)
  /\ dprev' = dlast
  /\ dcount' = dcount + 1
  /\ UNCHANGED <<chainVars, hdrVars, decVars, probeVars>>

\* line 96
DumpRaw ==
  /\ req.variant = "raw"
  /\ dcount < MaxDumps
  /\ LET ser == DumpRequestRaw(req) IN
       dlast' = [out |-> ser.out, err |-> ser.err, readErr |-> NoErr]
  /\ dprev' = dlast
  /\ dcount' = dcount + 1
  /\ UNCHANGED req
  /\ UNCHANGED <<chainVars, hdrVars, decVars, probeVars>>

NextDump == DumpStructured \/ DumpRaw

SpecDump == InitDump /\ [][NextDump]_vars

(***************************************************************************)
(* Properties of dump                                                      *)
(***************************************************************************)
Structured == req.variant = "structured"

C7_ReadErrorReturned ==
  (Structured /\ dcount >= 1 /\ dlast.readErr # NoErr) => dlast.err = dlast.readErr

\* C7 amended: an error of the serializer is returned as it is, with no bytes,
\* for both variants; an error of the body read is never returned: dump goes
\* on with an empty body and returns what the serializer returns for it (the
\* read is not tried again: no byte of the body is in that result).
C7_SerializerErrorOnly ==
  dcount >= 1 =>
    /\ dlast.err \in {NoErr, "SerializationError"}
    /\ ~req.serOK => (dlast.err = "SerializationError" /\ dlast.out = <<>>)
    /\ dlast.err # NoErr => dlast.out = <<>>
    /\ (Structured /\ dlast.readErr # NoErr /\ req.serOK /\ req.contentLength = 0) =>
         (dlast.err = NoErr /\ dlast.out = <<"HEAD">>)
    /\ (Structured /\ dlast.readErr # NoErr) => dlast.out \in {<<>>, <<"HEAD">>}
    /\ (~Structured /\ req.serOK) =>
         (dlast.err = NoErr /\ dlast.out = <<"RAW">> \o req.data)

C7_Witness ==
  /\ Structured
  /\ dcount >= 1
  /\ dlast.readErr = "ReadError"
  /\ req.serOK /\ req.contentLength = 0
  /\ dlast.err = NoErr
  /\ dlast.out = <<"HEAD">>

(***************************************************************************)
(* handleDecompression                                                     *)
(*                                                                         *)
(* Strings are sequences of one-character strings.  A gzip stream is, per  *)
(* member, the magic byte, compressed symbols and a trailer byte that      *)
(* carries the parity of the member's symbols; symbol 1 inflates to one    *)
(* byte and symbol 2 to two.                                               *)
(***************************************************************************)
MaxRawLen == 3

GzipBytes == {31, 1, 2, 8, 9}
RawBodies == UNION {[1..n -> GzipBytes] : n \in 0..MaxRawLen}

\* the Content-Encoding values tried; <<>> is a response without the header
Encodings ==
  { <<>>,
    <<"g", "z", "i", "p">>,
    <<"G", "Z", "I", "P">>,
    <<" ", "G", "z", "i", "p", "\t">>,
    <<"x", "-", "g", "z", "i", "p">>,
    <<"b", "r", ",", " ", "g", "z", "i", "p">>,
    <<"g", "z", " ", "i", "p">>,
    <<"z", "i", "p">>,
    <<"g", "z", "i">>,
    <<"b", "r">>,
    <<"i", "d">> }

\* strings.ToLower
LowerOf(c) ==
  CASE c = "G" -> "g" [] c = "Z" -> "z" [] c = "I" -> "i" [] c = "P" -> "p"
    [] OTHER -> c
ToLower(str) == [k \in 1..Len(str) |-> LowerOf(str[k])]

\* strings.TrimSpace
IsSpace(c) == c \in {" ", "\t", "\n", "\r"}
RECURSIVE TrimLeft(_)
TrimLeft(str) ==
  IF str # <<>> /\ IsSpace(Head(str)) THEN TrimLeft(Tail(str)) ELSE str
RECURSIVE TrimRight(_)
TrimRight(str) ==
  IF str # <<>> /\ IsSpace(str[Len(str)])
  THEN TrimRight(SubSeq(str, 1, Len(str) - 1)) ELSE str
TrimSpace(str) == TrimRight(TrimLeft(str))

\* strings.Contains
Contains(str, sub) ==
  \E k \in 0..(Len(str) - Len(sub)) : SubSeq(str, k + 1, k + Len(sub)) = sub

\* gzip.NewReader: reads the header of the first member
GzipNewReader(b) ==
  IF b = <<>> THEN "EOF"
  ELSE IF b[1] # 31 THEN "gzip: invalid header"
  ELSE NoErr

Inflated(sym) == IF sym = 1 THEN <<65>> ELSE <<66, 66>>

\* ioutil.ReadAll(gzipreader), from position i of the current member on: the
\* bytes inflated so far, and the error that ended the read if one did
RECURSIVE GzipRead(_, _, _, _)
GzipRead(b, i, acc, sum) ==
  IF i > Len(b) THEN [data |-> acc, err |-> "unexpected EOF"]
  ELSE IF b[i] \in {1, 2} THEN GzipRead(b, i + 1, acc \o Inflated(b[i]), sum + b[i])
  ELSE IF b[i] = 31 THEN [data |-> acc, err |-> "flate: corrupt input"]
  ELSE IF b[i] # 8 + (sum % 2) THEN [data |-> acc, err |-> "gzip: invalid checksum"]
  ELSE IF i = Len(b) THEN [data |-> acc, err |-> NoErr]
  ELSE IF b[i + 1] # 31 THEN [data |-> acc, err |-> "gzip: invalid header"]
  ELSE GzipRead(b, i + 2, acc, 0)

GzipReadAll(b) == GzipRead(b, 2, <<>>, 0)

\* line 105
encodingHeader(r) == TrimSpace(ToLower(r.encoding))

ReadFailure_Partial(orig, dec, e) == [body |-> dec, err |-> e]

\* lines 114-116: a failed read returns the bytes handed in, not what was inflated
ReadFailure(orig, dec, e) == [body |-> orig, err |-> e]

\* lines 100-120
handleDecompression(r, orig) ==
  IF r.absent THEN [body |-> orig, err |-> NoErr]
  ELSE IF Contains(encodingHeader(r), <<"g", "z", "i", "p">>)
  THEN IF GzipNewReader(orig) # NoErr
       THEN [body |-> orig, err |-> GzipNewReader(orig)]
       ELSE IF GzipReadAll(orig).err # NoErr
       THEN ReadFailure(orig, GzipReadAll(orig).data, GzipReadAll(orig).err)
       ELSE [body |-> GzipReadAll(orig).data, err |-> NoErr]
  ELSE [body |-> orig, err |-> NoErr]

InitDecomp ==
  /\ ChainIdle /\ HdrIdle /\ DumpIdle /\ ProbeIdle
  /\ resp \in [absent : {TRUE}] \cup [absent : {FALSE}, encoding : Encodings]
  /\ bodyOrig \in RawBodies
  /\ zpc = "call"
  /\ zres = [body |-> <<>>, err |-> NoErr]

HandleDecompression ==
  /\ zpc = "call"
  /\ zres' = handleDecompression(resp, bodyOrig)
  /\ zpc' = "done"
  /\ UNCHANGED <<resp, bodyOrig>>
  /\ UNCHANGED <<chainVars, hdrVars, dumpVars, probeVars>>

NextDecomp == HandleDecompression

SpecDecomp == InitDecomp /\ [][NextDecomp]_vars

(***************************************************************************)
(* Properties of handleDecompression                                       *)
(***************************************************************************)
\* the values tried that, trimmed and lower-cased, contain "gzip"
GzipEncodings ==
  { <<"g", "z", "i", "p">>,
    <<"G", "Z", "I", "P">>,
    <<" ", "G", "z", "i", "p", "\t">>,
    <<"x", "-", "g", "z", "i", "p">>,
    <<"b", "r", ",", " ", "g", "z", "i", "p">> }

DeclaresGzip == ~resp.absent /\ resp.encoding \in GzipEncodings

\* a well-formed stream: members of magic, symbols, matching trailer
RECURSIVE WellFormedGzip(_)
WellFormedGzip(b) ==
  /\ Len(b) >= 2
  /\ b[1] = 31
  /\ \E t \in 2..Len(b) :
       /\ \A k \in 2..(t - 1) : b[k] \in {1, 2}
       /\ b[t] \in {8, 9}
       /\ b[t] = 8 + (Cardinality({k \in 2..(t - 1) : b[k] = 1}) % 2)
       /\ (t = Len(b) \/ WellFormedGzip(SubSeq(b, t + 1, Len(b))))

\* C3: without a response or without "gzip" in the encoding the input comes
\* back with no error; with "gzip" and a stream that does not decode the input
\* comes back with an error; only a stream that decodes gives other bytes.
C3_FailsOpen ==
  zpc = "done" =>
    /\ ~DeclaresGzip => (zres.body = bodyOrig /\ zres.err = NoErr)
    /\ (DeclaresGzip /\ ~WellFormedGzip(bodyOrig)) =>
         (zres.body = bodyOrig /\ zres.err # NoErr)
    /\ (DeclaresGzip /\ WellFormedGzip(bodyOrig)) => zres.err = NoErr
    /\ zres.body # bodyOrig => (DeclaresGzip /\ WellFormedGzip(bodyOrig) /\ zres.err = NoErr)

C3_Witness ==
  /\ zpc = "done"
  /\ DeclaresGzip
  /\ resp.encoding # <<"g", "z", "i", "p">>
  /\ bodyOrig = <<31, 2, 9>>
  /\ zres.body = bodyOrig
  /\ zres.err # NoErr

(***************************************************************************)
(* rawHasBody                                                              *)
(*                                                                         *)
(* The text is a sequence of pieces: "RL" a well-formed request line, "BAD" *)
(* a line that is neither a request line nor a header, "H" a header line,  *)
(* "CL0", "CL1", "CL2", "CL513" a Content-Length header of that value,     *)
(* "END" the blank line that ends the head, "b" one byte of body and "K"   *)
(* ReadCap bytes of body.  Transfer-Encoding is not among the inputs.      *)
(***************************************************************************)
MaxHeadLen == 4
MaxBodyPieces == 2

ReadCap == 512

LengthHeaders == {"CL0", "CL1", "CL2", "CL513"}
HeadPieces == {"RL", "BAD", "H", "END"} \cup LengthHeaders
BodyPieces == {"b", "K"}

HeadTexts == UNION {[1..n -> HeadPieces] : n \in 0..MaxHeadLen}
BodyTexts == UNION {[1..n -> BodyPieces] : n \in 0..MaxBodyPieces}

ContentLengthOf(h) ==
  CASE h = "CL0" -> 0 [] h = "CL1" -> 1 [] h = "CL2" -> 2 [] h = "CL513" -> 513

PieceLen(x) == IF x = "K" THEN ReadCap ELSE 1

RECURSIVE ByteLen(_)
ByteLen(t) == IF t = <<>> THEN 0 ELSE PieceLen(Head(t)) + ByteLen(Tail(t))

\* the header lines from piece i on: where the head ends and the
\* Content-Length values seen, or the error that ends the parse
RECURSIVE ReadHeaders(_, _, _)
ReadHeaders(d, i, lens) ==
  IF i > Len(d) THEN [err |-> "unexpected EOF"]
  ELSE IF d[i] = "END" THEN [err |-> NoErr, next |-> i + 1, lens |-> lens]
  ELSE IF d[i] = "H" THEN ReadHeaders(d, i + 1, lens)
  ELSE IF d[i] \in LengthHeaders
  THEN ReadHeaders(d, i + 1, lens \cup {ContentLengthOf(d[i])})
  ELSE [err |-> "malformed MIME header line"]

\* http.ReadRequest: request line, headers, and the body the headers declare.
\* A request without Content-Length, or with Content-Length 0, gets http.NoBody.
ReadRequest(d) ==
  IF d = <<>> THEN [err |-> "EOF"]
  ELSE IF d[1] # "RL" THEN [err |-> "malformed HTTP request"]
  ELSE LET h == ReadHeaders(d, 2, {}) IN
    IF h.err # NoErr THEN [err |-> h.err]
    ELSE IF Cardinality(h.lens) > 1 THEN [err |-> "multiple Content-Length"]
    ELSE LET n == IF h.lens = {} THEN 0 ELSE CHOOSE x \in h.lens : TRUE IN
      [err |-> NoErr, noBody |-> (n = 0), length |-> n,
       avail |-> ByteLen(SubSeq(d, h.next, Len(d)))]

\* ioutil.ReadAll(io.LimitReader(req.Body, cap)): req.Body yields at most
\* length bytes and fails when the text ends before them; the limit stops the
\* read after cap bytes without an error.
LimitedReadAll(r, cap) ==
  LET reach == IF r.length < r.avail THEN r.length ELSE r.avail
      got   == IF reach < cap THEN reach ELSE cap
  IN [n |-> got,
      err |-> IF got < cap /\ r.avail < r.length THEN "unexpected EOF" ELSE NoErr]

ProbeResult_IgnoreErr(rd) == rd.n > 0

\* lines 139-142
ProbeResult(rd) == IF rd.err # NoErr THEN FALSE ELSE rd.n > 0

\* lines 123-143
rawHasBody(d) ==
  LET r == ReadRequest(d) IN
    IF r.err = "EOF" THEN FALSE
    ELSE IF r.err # NoErr THEN FALSE
    ELSE IF r.noBody THEN FALSE
    ELSE ProbeResult(LimitedReadAll(r, ReadCap))

InitProbe ==
  /\ ChainIdle /\ HdrIdle /\ DumpIdle /\ DecIdle
  /\ \E h \in HeadTexts, b \in BodyTexts : data = h \o b
  /\ ppc = "call"
  /\ pres = FALSE

RawHasBody ==
  /\ ppc = "call"
  /\ pres' = rawHasBody(data)
  /\ ppc' = "done"
  /\ UNCHANGED data
  /\ UNCHANGED <<chainVars, hdrVars, dumpVars, decVars>>

NextProbe == RawHasBody

SpecProbe == InitProbe /\ [][NextProbe]_vars

(***************************************************************************)
(* Properties of rawHasBody                                                *)
(***************************************************************************)
\* the text is a request line, header lines and the blank line
HeadEnd(d) ==
  IF \E i \in 1..Len(d) : d[i] = "END"
  THEN CHOOSE i \in 1..Len(d) : d[i] = "END" /\ \A j \in 1..(i - 1) : d[j] # "END"
  ELSE 0

ParsesAsHead(d) ==
  /\ HeadEnd(d) >= 2
  /\ d[1] = "RL"
  /\ \A j \in 2..(HeadEnd(d) - 1) : d[j] \in {"H"} \cup LengthHeaders
  /\ Cardinality({d[j] : j \in 2..(HeadEnd(d) - 1)} \cap LengthHeaders) <= 1

DeclaredLength(d) ==
  LET ls == {d[j] : j \in 2..(HeadEnd(d) - 1)} \cap LengthHeaders IN
    IF ls = {} THEN 0 ELSE ContentLengthOf(CHOOSE x \in ls : TRUE)

BytesAfterHead(d) == ByteLen(SubSeq(d, HeadEnd(d) + 1, Len(d)))

\* C5: rawHasBody returns a bool for every text, and true exactly when the
\* text parses as a request head, the request has a body (a Content-Length
\* above zero), and reading at most ReadCap bytes of it succeeds (all the
\* declared bytes are there, or ReadCap of them are) and yields a byte.
C5_TrueIffBodyRead ==
  ppc = "done" =>
    /\ pres \in BOOLEAN
    /\ pres <=>
         /\ ParsesAsHead(data)
         /\ DeclaredLength(data) > 0
         /\ \/ BytesAfterHead(data) >= DeclaredLength(data)
            \/ BytesAfterHead(data) >= ReadCap

C5_Witness ==
  /\ ppc = "done"
  /\ data = <<"RL", "H", "CL2", "END", "b">>
  /\ pres = FALSE

====
